---- MODULE Spec2Model ----
(***************************************************************************)
(* Exercise-session ingest: the idempotency guard                          *)
(* (src/src/idempotencyService.ts) and the session merge transaction       *)
(* (src/src/ingestHandler.ts) over a document store whose transactions     *)
(* run one at a time (src/__tests__/testUtils/inMemoryFirestore.ts).       *)
(*                                                                         *)
(* Times are milliseconds.  An optional field of a document is a sequence: *)
(* << >> when the field is absent, << v >> when it holds v.                *)
(***************************************************************************)
EXTENDS Integers, Sequences, FiniteSets, TLC

VARIABLES
    now,        \* the wall clock (Date.now(), Timestamp.now())
    ticksLeft,  \* how many more times the clock may advance
    idem,       \* collection 'idempotency': key -> IdempotencyRecord
    sessions,   \* collection 'sessions': sessionId -> ExerciseSession
    events,     \* collection 'events': eventId -> ExerciseEvent
    calls,      \* the requests in flight: position and locals of each call
    invoked,    \* history: per key, how many times the processor was invoked
    everAged,   \* history: per key, a record expired or a claim aged past the timeout
    evWrites,   \* history: per eventId, how many times its Event document was written
    folds,      \* history: per eventId, how many times its metrics were folded into a session
    applied,    \* history: the payloads given to createNewSession and updateSessionMetrics
    claimant,   \* history: per key, the call whose claim wrote the record, whether that
                \* claim took over a stale one, and the response it completed with
    last        \* history: the last store transaction or update that ran

vars == << now, ticksLeft, idem, sessions, events, calls,
           invoked, everAged, evWrites, folds, applied,
           claimant, last >>

----------------------------------------------------------------------------
(* Bounds of the model *)

MaxCalls == 3
MaxTicks == 2
MaxEvents == 3
MaxRequests == 2
MaxLongTicks == 1

----------------------------------------------------------------------------
(* Program constants *)

EXPIRY_HOURS == 24
PROCESSING_TIMEOUT_MS == 2 * 60 * 1000
ExpiryMs == EXPIRY_HOURS * 60 * 60 * 1000

Keys == {"k1", "k2"}
Calls == 1 .. MaxCalls

\* The amounts by which the clock advances between two steps: one second, the
\* processing timeout exactly, and the rest of the 24 hours of a record's life.
Jumps == {1000, PROCESSING_TIMEOUT_MS, ExpiryMs - PROCESSING_TIMEOUT_MS}

EmptyStore == [x \in {} |-> 0]

None == << >>
Some(v) == << v >>
IsSome(o) == o # << >>
Get(o) == o[1]

\* Document write {...existing, ...data}: the fields of data replace or extend existing.
Merge(existing, data) ==
    [f \in (DOMAIN existing) \cup (DOMAIN data) |->
        IF f \in DOMAIN data THEN data[f] ELSE existing[f]]

\* A collection with the document at id replaced by doc.
Put(coll, id, doc) ==
    [x \in (DOMAIN coll) \cup {id} |-> IF x = id THEN doc ELSE coll[x]]

----------------------------------------------------------------------------
(* JavaScript values a generic processor returns, and their truthiness *)

NumberValue(n) == [kind |-> "number", n |-> n]

JsTruthy(v) == IF v.kind = "number" THEN v.n # 0 ELSE TRUE

GenericRequests == {[kind |-> "request", id |-> 1]}

\* What a processor does: return a value (0 is falsy) or throw.
GenericOutcomes ==
    {[ok |-> TRUE, value |-> NumberValue(0)],
     [ok |-> TRUE, value |-> NumberValue(7)],
     [ok |-> FALSE, message |-> "boom"]}

----------------------------------------------------------------------------
(* IdempotencyService.processWithIdempotency: the claim transaction *)

NewRecord(k, request, t) ==
    [key |-> k,
     request |-> request,
     status |-> "processing",
     createdAt |-> t,
     processingStartedAt |-> Some(t),
     expiresAt |-> t + ExpiryMs]

ProcessingAge(data, t) ==
    IF IsSome(data.processingStartedAt)
    THEN t - Get(data.processingStartedAt)
    ELSE t - data.createdAt

HasResponse(data) ==
    /\ "response" \in DOMAIN data
    /\ JsTruthy(data.response)

\* Faulty variant of ClaimDecision: a claim exactly as old as the timeout is
\* taken over.
ClaimDecision_TakesOverAtTimeout(k, t) ==
    IF k \in DOMAIN idem /\ t < idem[k].expiresAt
    THEN LET data == idem[k] IN
         IF data.status = "completed" /\ HasResponse(data) THEN "cached"
         ELSE IF data.status = "processing"
              THEN IF ProcessingAge(data, t) >= PROCESSING_TIMEOUT_MS
                   THEN "claim"
                   ELSE "concurrent"
         ELSE IF data.status = "failed" THEN "previous_failed"
         ELSE "claim"
    ELSE "claim"

\* Faulty variant of ClaimDecision: a processing record is never taken over.
ClaimDecision_NeverTakesOver(k, t) ==
    IF k \in DOMAIN idem /\ t < idem[k].expiresAt
    THEN LET data == idem[k] IN
         IF data.status = "completed" /\ HasResponse(data) THEN "cached"
         ELSE IF data.status = "processing" THEN "concurrent"
         ELSE IF data.status = "failed" THEN "previous_failed"
         ELSE "claim"
    ELSE "claim"

\* Faulty variant of ClaimDecision: a record lives through the instant of its expiry.
ClaimDecision_LiveAtExpiry(k, t) ==
    IF k \in DOMAIN idem /\ t <= idem[k].expiresAt
    THEN LET data == idem[k] IN
         IF data.status = "completed" /\ HasResponse(data) THEN "cached"
         ELSE IF data.status = "processing"
              THEN IF ProcessingAge(data, t) > PROCESSING_TIMEOUT_MS
                   THEN "claim"
                   ELSE "concurrent"
         ELSE IF data.status = "failed" THEN "previous_failed"
         ELSE "claim"
    ELSE "claim"

\* Faulty variant of ClaimDecision: a failed record is claimed again.
ClaimDecision_RetriesFailed(k, t) ==
    IF k \in DOMAIN idem /\ t < idem[k].expiresAt
    THEN LET data == idem[k] IN
         IF data.status = "completed" /\ HasResponse(data) THEN "cached"
         ELSE IF data.status = "processing"
              THEN IF ProcessingAge(data, t) > PROCESSING_TIMEOUT_MS
                   THEN "claim"
                   ELSE "concurrent"
         ELSE "claim"
    ELSE "claim"

\* The branch the claim transaction takes for key k at time t:
\* "cached", "concurrent", "previous_failed", or "claim" (write a new record).
ClaimDecision(k, t) ==
    IF k \in DOMAIN idem /\ t < idem[k].expiresAt
    THEN LET data == idem[k] IN
         IF data.status = "completed" /\ HasResponse(data) THEN "cached"
         ELSE IF data.status = "processing"
              THEN IF ProcessingAge(data, t) > PROCESSING_TIMEOUT_MS
                   THEN "claim"
                   ELSE "concurrent"
         ELSE IF data.status = "failed" THEN "previous_failed"
         ELSE "claim"
    ELSE "claim"

\* Faulty variant of MapError: the errors keep their internal message.
MapError_Raw(message) == message

\* The outer catch: errors of the claim transaction get their public message.
MapError(message) ==
    IF message = "CONCURRENT_REQUEST" THEN "Request is already being processed"
    ELSE IF message = "PREVIOUS_FAILED"
         THEN "Previous request failed, please retry with new idempotency key"
    ELSE message

Returned(isNew, response) == [kind |-> "return", isNew |-> isNew, response |-> response]
Thrown(message) == [kind |-> "throw", message |-> MapError(message)]

IdleCall == [pc |-> "idle"]
\* A call that returned or threw keeps nothing: its result is in last.
DoneCall == [pc |-> "done"]
CrashedCall == [pc |-> "crashed"]

\* The document the step read for key k, if there is one.
Read(coll, k) == IF k \in DOMAIN coll THEN Some(coll[k]) ELSE None

\* A record expired, or a processing claim older than the timeout, at time t.
Aged(coll, k, t) ==
    /\ k \in DOMAIN coll
    /\ \/ ~(t < coll[k].expiresAt)
       \/ /\ coll[k].status = "processing"
          /\ ProcessingAge(coll[k], t) > PROCESSING_TIMEOUT_MS

\* The record of key k is a processing claim, not expired, older than the
\* timeout at time t: the next claim takes it over.
Stale(k, t) ==
    /\ k \in DOMAIN idem
    /\ t < idem[k].expiresAt
    /\ idem[k].status = "processing"
    /\ ProcessingAge(idem[k], t) > PROCESSING_TIMEOUT_MS

\* No call has claimed the key yet.
NoClaimant == [call |-> 0, takeover |-> FALSE, settled |-> None]

\* Calls start in order: call c + 1 is not submitted before call c.
MayStart(c) ==
    /\ calls[c].pc = "idle"
    /\ \A d \in DOMAIN calls : d < c => calls[d].pc # "idle"

\* Faulty variant of ClaimWith: a record whose request differs from the
\* call's is treated as no record.
ClaimWith_ComparesPayload(c, k, request) ==
    LET d == IF k \in DOMAIN idem /\ idem[k].request # request
             THEN "claim" ELSE ClaimDecision(k, now) IN
    /\ MayStart(c)
    /\ IF d = "claim"
       THEN /\ idem' = Put(idem, k, NewRecord(k, request, now))
            /\ calls' = [calls EXCEPT ![c] =
                   [pc |-> "claimed", key |-> k, request |-> request]]
       ELSE /\ idem' = idem
            /\ calls' = [calls EXCEPT ![c] = DoneCall]
    /\ last' = [op |-> "claim", call |-> c, key |-> k, request |-> request,
                decision |-> d, read |-> Read(idem, k),
                ret |-> IF d = "claim" THEN None
                        ELSE IF d = "cached"
                             THEN Some(Returned(FALSE, idem[k].response))
                        ELSE IF d = "concurrent"
                             THEN Some(Thrown("CONCURRENT_REQUEST"))
                        ELSE Some(Thrown("PREVIOUS_FAILED"))]
    /\ claimant' = IF d = "claim"
                   THEN [claimant EXCEPT ![k] =
                            [call |-> c, takeover |-> Stale(k, now), settled |-> @.settled]]
                   ELSE claimant
    /\ UNCHANGED << now, ticksLeft, sessions, events, invoked, everAged,
                    evWrites, folds, applied >>

ClaimWith(c, k, request) ==
    LET d == ClaimDecision(k, now) IN
    /\ MayStart(c)
    /\ IF d = "claim"
       THEN /\ idem' = Put(idem, k, NewRecord(k, request, now))
            /\ calls' = [calls EXCEPT ![c] =
                   [pc |-> "claimed", key |-> k, request |-> request]]
       ELSE /\ idem' = idem
            /\ calls' = [calls EXCEPT ![c] = DoneCall]
    /\ last' = [op |-> "claim", call |-> c, key |-> k, request |-> request,
                decision |-> d, read |-> Read(idem, k),
                ret |-> IF d = "claim" THEN None
                        ELSE IF d = "cached"
                             THEN Some(Returned(FALSE, idem[k].response))
                        ELSE IF d = "concurrent"
                             THEN Some(Thrown("CONCURRENT_REQUEST"))
                        ELSE Some(Thrown("PREVIOUS_FAILED"))]
    /\ claimant' = IF d = "claim"
                   THEN [claimant EXCEPT ![k] =
                            [call |-> c, takeover |-> Stale(k, now), settled |-> @.settled]]
                   ELSE claimant
    /\ UNCHANGED << now, ticksLeft, sessions, events, invoked, everAged,
                    evWrites, folds, applied >>

\* Faulty variant of FinalizeUpdate: a failure leaves the record as it is.
FinalizeUpdate_SuccessOnly(data, outcome, t) ==
    IF outcome.ok
    THEN Merge(data, [response |-> outcome.value,
                      status |-> "completed",
                      completedAt |-> t])
    ELSE data

\* Faulty variant of FinalizeUpdate: a failure is recorded without its message.
FinalizeUpdate_NoDetail(data, outcome, t) ==
    IF outcome.ok
    THEN Merge(data, [response |-> outcome.value,
                      status |-> "completed",
                      completedAt |-> t])
    ELSE Merge(data, [status |-> "failed", failedAt |-> t])

\* The update after the processor: status completed with the response, or
\* status failed with the error; then return or re-throw.
FinalizeUpdate(data, outcome, t) ==
    IF outcome.ok
    THEN Merge(data, [response |-> outcome.value,
                      status |-> "completed",
                      completedAt |-> t])
    ELSE Merge(data, [status |-> "failed",
                      error |-> outcome.message,
                      failedAt |-> t])

Finalize(c) ==
    /\ calls[c].pc = "processed"
    /\ LET k == calls[c].key
           outcome == calls[c].proc IN
       /\ idem' = Put(idem, k, FinalizeUpdate(idem[k], outcome, now))
       /\ calls' = [calls EXCEPT ![c] = DoneCall]
       /\ last' = [op |-> "finalize", call |-> c, key |-> k,
                   request |-> calls[c].request, read |-> Read(idem, k),
                   proc |-> outcome,
                   ret |-> Some(IF outcome.ok
                                THEN Returned(TRUE, outcome.value)
                                ELSE Thrown(outcome.message))]
       /\ claimant' = IF outcome.ok /\ claimant[k].call = c /\ claimant[k].takeover
                      THEN [claimant EXCEPT ![k].settled =
                               Some([response |-> outcome.value,
                                     expiresAt |-> idem[k].expiresAt])]
                      ELSE claimant
    /\ UNCHANGED << now, ticksLeft, sessions, events, invoked, everAged,
                    evWrites, folds, applied >>

\* The message of the error with which the store rejects an update.
StoreError == "store unavailable"

\* The update after the processor is rejected by the store.  After a
\* processor success the rejection is thrown inside the try block, so the
\* catch block sends the update to status failed, which the store accepts
\* (retryAccepted) or rejects as well; after a processor failure it is the
\* update of the catch block that is rejected.  The call throws the error of
\* the last rejected update or, when the catch block got its update through,
\* the error it caught.
FinalizeWithStoreError(c) ==
    /\ calls[c].pc = "processed"
    /\ LET k == calls[c].key
           outcome == calls[c].proc IN
       \E retryAccepted \in BOOLEAN :
          /\ idem' = IF outcome.ok /\ retryAccepted
                     THEN Put(idem, k, Merge(idem[k], [status |-> "failed",
                                                       error |-> StoreError,
                                                       failedAt |-> now]))
                     ELSE idem
          /\ calls' = [calls EXCEPT ![c] = DoneCall]
          /\ last' = [op |-> "finalize_rejected", call |-> c, key |-> k,
                      request |-> calls[c].request, read |-> Read(idem, k),
                      proc |-> outcome,
                      ret |-> Some(Thrown(StoreError))]
    /\ UNCHANGED << now, ticksLeft, sessions, events, invoked, everAged,
                    evWrites, folds, applied, claimant >>

\* The function instance dies between two awaits (it is killed after 30 s).
Crash(c) ==
    /\ calls[c].pc \in {"claimed", "processed"}
    /\ calls' = [calls EXCEPT ![c] = CrashedCall]
    /\ last' = [op |-> "crash", call |-> c, key |-> calls[c].key]
    /\ UNCHANGED << now, ticksLeft, idem, sessions, events, invoked, everAged,
                    evWrites, folds, applied, claimant >>

\* The clock advances by one of the amounts in jumps.
TickBy(jumps) ==
    /\ ticksLeft > 0
    /\ \E d \in jumps :
          /\ now' = now + d
          /\ everAged' = [k \in Keys |-> everAged[k] \/ Aged(idem, k, now + d)]
    /\ ticksLeft' = ticksLeft - 1
    /\ last' = [op |-> "tick"]
    /\ UNCHANGED << idem, sessions, events, calls, invoked, evWrites, folds, applied, claimant >>

Tick == TickBy(Jumps)

----------------------------------------------------------------------------
(* Numbers: JavaScript divisions are kept exact, as fractions in lowest terms *)

Abs(n) == IF n < 0 THEN -n ELSE n

RECURSIVE GCD(_, _)
GCD(a, b) == IF b = 0 THEN a ELSE GCD(b, a % b)

\* The fraction n / d, d > 0.
Rat(n, d) ==
    LET g == GCD(Abs(n), d) IN
    IF g = 0 THEN [num |-> n, den |-> d] ELSE [num |-> n \div g, den |-> d \div g]

Max(a, b) == IF a > b THEN a ELSE b

----------------------------------------------------------------------------
(* IngestRequest: the payload of a request, and the JavaScript reads of it *)

\* payload.metrics?.f: absent when metrics or the field is absent.
Metric(payload, f) ==
    IF IsSome(payload.metrics) THEN Get(payload.metrics)[f] ELSE None

\* x || dflt for a number: undefined and 0 give dflt.
OrElse(o, dflt) == IF IsSome(o) /\ Get(o) # 0 THEN Get(o) ELSE dflt

\* A number used as a condition: present and not 0.
TruthyNumber(o) == IsSome(o) /\ Get(o) # 0

\* Faulty variant of ReadingWeight: the reported duration, not raised to 1 second.
ReadingWeight_Unclamped(payload) ==
    IF IsSome(Metric(payload, "duration")) THEN Get(Metric(payload, "duration")) ELSE 1

\* Math.max(payload.metrics.duration || 1, 1)
ReadingWeight(payload) == Max(OrElse(Metric(payload, "duration"), 1), 1)

----------------------------------------------------------------------------
(* createNewSession *)

createNewSession(payload, t) ==
    LET eventTime == payload.timestamp
        hr == Metric(payload, "heartRate") IN
    [sessionId |-> payload.sessionId,
     userId |-> payload.userId,
     startTime |-> eventTime,
     endTime |-> None,
     lastUpdated |-> t,
     lastEventTime |-> eventTime,
     lastEventSequence |-> OrElse(payload.eventSequence, 0),
     version |-> 1,
     metrics |->
        [totalDuration |-> Rat(0, 1),
         caloriesBurned |-> OrElse(Metric(payload, "calories"), 0),
         distance |-> OrElse(Metric(payload, "distance"), 0),
         heartRateAvg |-> IF IsSome(hr) THEN Some(Rat(Get(hr), 1)) ELSE None,
         heartRateDataPoints |-> IF TruthyNumber(hr) THEN ReadingWeight(payload) ELSE 0],
     status |-> "active",
     requiresReconciliation |-> None,
     reconciliationReason |-> None]

----------------------------------------------------------------------------
(* updateSessionMetrics *)

\* Faulty variant of StartMarker: every start event sets the start time.
StartMarker_Latest(session, payload) ==
    IF payload.eventType = "start"
    THEN [session EXCEPT !.startTime = payload.timestamp]
    ELSE session

\* if (payload.eventType === 'start') ...
StartMarker(session, payload) ==
    IF payload.eventType = "start" /\ payload.timestamp < session.startTime
    THEN [session EXCEPT !.startTime = payload.timestamp]
    ELSE session

\* Faulty variant of EndMarker: the end time is set, the status is left.
EndMarker_EndTimeOnly(session, payload) ==
    IF payload.eventType = "end"
    THEN [session EXCEPT
            !.endTime = IF ~IsSome(session.endTime) \/ payload.timestamp > Get(session.endTime)
                        THEN Some(payload.timestamp)
                        ELSE session.endTime]
    ELSE session

\* if (payload.eventType === 'end') ...
EndMarker(session, payload) ==
    IF payload.eventType = "end"
    THEN [session EXCEPT
            !.endTime = IF ~IsSome(session.endTime) \/ payload.timestamp > Get(session.endTime)
                        THEN Some(payload.timestamp)
                        ELSE session.endTime,
            !.status = "completed"]
    ELSE session

\* Faulty variant of FoldCalories: the delta replaces the total.
FoldCalories_Overwrite(m, payload) ==
    LET c == Metric(payload, "calories") IN
    IF IsSome(c) /\ Get(c) >= 0
    THEN [m EXCEPT !.caloriesBurned = Get(c)]
    ELSE m

\* Calories: delta values, accumulated.
FoldCalories(m, payload) ==
    LET c == Metric(payload, "calories") IN
    IF IsSome(c) /\ Get(c) >= 0
    THEN [m EXCEPT !.caloriesBurned = @ + Get(c)]
    ELSE m

\* Faulty variant of FoldDistance: the latest value replaces the maximum.
FoldDistance_Latest(m, payload) ==
    LET d == Metric(payload, "distance") IN
    IF IsSome(d) /\ Get(d) >= 0
    THEN [m EXCEPT !.distance = Get(d)]
    ELSE m

\* Distance: absolute value, monotonic maximum.
FoldDistance(m, payload) ==
    LET d == Metric(payload, "distance") IN
    IF IsSome(d) /\ Get(d) >= 0
    THEN [m EXCEPT !.distance = Max(@, Get(d))]
    ELSE m

\* Heart rate: average weighted by duration.
FoldHeartRate(m, payload) ==
    LET h == Metric(payload, "heartRate") IN
    IF IsSome(h) /\ Get(h) > 0 /\ Get(h) <= 250
    THEN LET hr == Get(h)
             duration == ReadingWeight(payload)
             currentWeight == m.heartRateDataPoints
             currentAvg == IF IsSome(m.heartRateAvg) /\ Get(m.heartRateAvg).num # 0
                           THEN Get(m.heartRateAvg)
                           ELSE Rat(hr, 1)
             totalWeight == currentWeight + duration IN
         IF totalWeight > 0
         THEN [m EXCEPT
                 !.heartRateAvg =
                     Some(Rat(currentAvg.num * currentWeight + hr * duration * currentAvg.den,
                              currentAvg.den * totalWeight)),
                 !.heartRateDataPoints = totalWeight]
         ELSE m
    ELSE m

FoldMetrics(m, payload) ==
    IF IsSome(payload.metrics)
    THEN FoldHeartRate(FoldDistance(FoldCalories(m, payload), payload), payload)
    ELSE m

\* Recalculate duration: (endTime or now) - startTime, in seconds.
TotalDuration(session, t) ==
    IF IsSome(session.endTime)
    THEN Rat(Get(session.endTime) - session.startTime, 1000)
    ELSE Rat(t - session.startTime, 1000)

\* Faulty variant of updateSessionMetrics: folding an event in order takes
\* the session out of reconciliation.
updateSessionMetrics_ClearsFlag(session, payload, t) ==
    LET marked == EndMarker(StartMarker(session, payload), payload)
        folded == [marked EXCEPT !.metrics = FoldMetrics(@, payload)] IN
    [folded EXCEPT
        !.metrics.totalDuration = TotalDuration(folded, t),
        !.lastUpdated = t,
        !.version = @ + 1,
        !.requiresReconciliation = None,
        !.reconciliationReason = None]

updateSessionMetrics(session, payload, t) ==
    LET marked == EndMarker(StartMarker(session, payload), payload)
        folded == [marked EXCEPT !.metrics = FoldMetrics(@, payload)] IN
    [folded EXCEPT
        !.metrics.totalDuration = TotalDuration(folded, t),
        !.lastUpdated = t,
        !.version = @ + 1]

----------------------------------------------------------------------------
(* processEvent: one transaction over the Event and the Session document *)

\* Sequence-based out-of-order detection.
SequenceOutOfOrder(session, payload) ==
    /\ TruthyNumber(payload.eventSequence)
    /\ session.lastEventSequence # 0
    /\ Get(payload.eventSequence) <= session.lastEventSequence

\* Faulty variant of TimeOutOfOrder: no event is out of order by its time.
TimeOutOfOrder_Never(session, payload) == FALSE

\* Time-based out-of-order detection.
TimeOutOfOrder(session, payload) == payload.timestamp < session.lastEventTime

OutOfOrder(session, payload) ==
    SequenceOutOfOrder(session, payload) \/ TimeOutOfOrder(session, payload)

FlagOutOfOrder(session) ==
    [session EXCEPT !.requiresReconciliation = Some(TRUE),
                    !.reconciliationReason = Some("out_of_order")]

\* Faulty variant of Track: the tracking fields follow the latest event.
Track_Latest(session, payload) ==
    [session EXCEPT
        !.lastEventSequence = OrElse(payload.eventSequence, 0),
        !.lastEventTime = payload.timestamp]

\* Always update tracking fields.
Track(session, payload) ==
    [session EXCEPT
        !.lastEventSequence = Max(@, OrElse(payload.eventSequence, 0)),
        !.lastEventTime = IF payload.timestamp > @ THEN payload.timestamp ELSE @]

\* Faulty variant of MergedSession: the metrics are folded even when the event
\* is out of order.
MergedSession_AlwaysFolds(session, payload, t) ==
    IF OutOfOrder(session, payload)
    THEN Track(updateSessionMetrics(FlagOutOfOrder(session), payload, t), payload)
    ELSE Track(updateSessionMetrics(session, payload, t), payload)

\* The session handed to transaction.set for an event merged into an existing session.
MergedSession(session, payload, t) ==
    IF OutOfOrder(session, payload)
    THEN Track(FlagOutOfOrder(session), payload)
    ELSE Track(updateSessionMetrics(session, payload, t), payload)

\* Mark for reconciliation if clock drift detected (after the session was handed to set).
MarkClockDrift(session, payload) ==
    IF payload.requiresReconciliation /\ session.requiresReconciliation # Some(TRUE)
    THEN [session EXCEPT !.requiresReconciliation = Some(TRUE),
                         !.reconciliationReason = Some("clock_drift")]
    ELSE session

EventRecord(payload, outOfOrder, t) ==
    [eventId |-> payload.eventId,
     sessionId |-> payload.sessionId,
     userId |-> payload.userId,
     timestamp |-> payload.timestamp,
     type |-> payload.eventType,
     metrics |-> payload.metrics,
     clientTimestamp |-> payload.timestamp,
     serverTimestamp |-> t,
     eventSequence |-> OrElse(payload.eventSequence, 0),
     schemaVersion |-> 1,
     outOfOrder |-> outOfOrder,
     clockDriftDetected |-> payload.clockDriftDetected]

SuccessResponse(session, outOfOrder) ==
    [kind |-> "object",
     status |-> "success",
     sessionId |-> session.sessionId,
     sessionStatus |-> session.status,
     currentMetrics |->
        [duration |-> session.metrics.totalDuration,
         calories |-> session.metrics.caloriesBurned,
         distance |-> session.metrics.distance,
         avgHeartRate |-> session.metrics.heartRateAvg],
     requiresReconciliation |-> session.requiresReconciliation,
     outOfOrder |-> outOfOrder]

AlreadyProcessed(payload) ==
    [kind |-> "object",
     status |-> "already_processed",
     sessionId |-> payload.sessionId,
     warning |-> "Event already processed with different idempotency key"]

\* A transaction that threw: nothing is written.
Aborted(message) ==
    [ok |-> FALSE, message |-> message, sessions |-> sessions, events |-> events,
     wroteEvent |-> FALSE, folded |-> FALSE]

\* A transaction that committed a session and the event.
Committed(payload, handed, outOfOrder, folded, t, keepsReference) ==
    LET marked == MarkClockDrift(handed, payload) IN
    [ok |-> TRUE,
     value |-> SuccessResponse(marked, outOfOrder),
     sessions |-> Put(sessions, payload.sessionId,
                      IF keepsReference THEN marked ELSE handed),
     events |-> Put(events, payload.eventId, EventRecord(payload, outOfOrder, t)),
     wroteEvent |-> TRUE,
     folded |-> folded]

\* Faulty variant of processEvent: no check that the event already exists.
processEvent_NoDedup(payload, t, keepsReference) ==
    IF payload.sessionId \notin DOMAIN sessions
    THEN IF payload.eventType # "start"
         THEN Aborted("Cannot create session without start event")
         ELSE Committed(payload, createNewSession(payload, t), FALSE, TRUE, t,
                        keepsReference)
    ELSE LET session == sessions[payload.sessionId]
             outOfOrder == OutOfOrder(session, payload) IN
         Committed(payload, MergedSession(session, payload, t), outOfOrder,
                   ~outOfOrder, t, keepsReference)

\* Faulty variant of processEvent: the duplicate check looks the event up
\* among the events of the request's session only.
processEvent_DedupPerSession(payload, t, keepsReference) ==
    IF /\ payload.eventId \in DOMAIN events
       /\ events[payload.eventId].sessionId = payload.sessionId
    THEN [ok |-> TRUE, value |-> AlreadyProcessed(payload),
          sessions |-> sessions, events |-> events,
          wroteEvent |-> FALSE, folded |-> FALSE]
    ELSE processEvent_NoDedup(payload, t, keepsReference)

\* Faulty variant of processEvent: a start event creates the session whether
\* or not the session exists.
processEvent_StartOverwrites(payload, t, keepsReference) ==
    IF payload.eventId \in DOMAIN events
    THEN [ok |-> TRUE, value |-> AlreadyProcessed(payload),
          sessions |-> sessions, events |-> events,
          wroteEvent |-> FALSE, folded |-> FALSE]
    ELSE IF payload.eventType = "start"
    THEN Committed(payload, createNewSession(payload, t), FALSE, TRUE, t,
                   keepsReference)
    ELSE processEvent_NoDedup(payload, t, keepsReference)

\* Faulty variant of processEvent: a start event for a session that exists
\* aborts the transaction.
processEvent_LoserAborts(payload, t, keepsReference) ==
    IF payload.eventId \in DOMAIN events
    THEN [ok |-> TRUE, value |-> AlreadyProcessed(payload),
          sessions |-> sessions, events |-> events,
          wroteEvent |-> FALSE, folded |-> FALSE]
    ELSE IF payload.sessionId \in DOMAIN sessions /\ payload.eventType = "start"
    THEN Aborted("Document already exists")
    ELSE processEvent_NoDedup(payload, t, keepsReference)

\* Faulty variant of processEvent: the Event document is written on its own,
\* before the session is looked up, so that a failure leaves it behind.
processEvent_EventOnItsOwn(payload, t, keepsReference) ==
    IF payload.eventId \in DOMAIN events
    THEN [ok |-> TRUE, value |-> AlreadyProcessed(payload),
          sessions |-> sessions, events |-> events,
          wroteEvent |-> FALSE, folded |-> FALSE]
    ELSE IF payload.sessionId \notin DOMAIN sessions /\ payload.eventType # "start"
    THEN [ok |-> FALSE, message |-> "Cannot create session without start event",
          sessions |-> sessions,
          events |-> Put(events, payload.eventId, EventRecord(payload, FALSE, t)),
          wroteEvent |-> TRUE, folded |-> FALSE]
    ELSE processEvent_NoDedup(payload, t, keepsReference)

\* processEvent(payload) at time t.  keepsReference: the store commits the
\* object it was handed, so that a change made to it after set() is stored
\* (the in-memory store does); otherwise set() stores the value it was given.
processEvent(payload, t, keepsReference) ==
    IF payload.eventId \in DOMAIN events
    THEN [ok |-> TRUE, value |-> AlreadyProcessed(payload),
          sessions |-> sessions, events |-> events,
          wroteEvent |-> FALSE, folded |-> FALSE]
    ELSE IF payload.sessionId \notin DOMAIN sessions
    THEN IF payload.eventType # "start"
         THEN Aborted("Cannot create session without start event")
         ELSE Committed(payload, createNewSession(payload, t), FALSE, TRUE, t,
                        keepsReference)
    ELSE LET session == sessions[payload.sessionId]
             outOfOrder == OutOfOrder(session, payload) IN
         Committed(payload, MergedSession(session, payload, t), outOfOrder,
                   ~outOfOrder, t, keepsReference)

\* The effect of one processEvent transaction on the store and the histories.
RunTransaction(payload, r) ==
    /\ sessions' = r.sessions
    /\ events' = r.events
    /\ evWrites' = IF r.wroteEvent
                   THEN Put(evWrites, payload.eventId,
                            IF payload.eventId \in DOMAIN evWrites
                            THEN evWrites[payload.eventId] + 1 ELSE 1)
                   ELSE evWrites
    /\ folds' = IF r.folded
                THEN Put(folds, payload.eventId,
                         IF payload.eventId \in DOMAIN folds
                         THEN folds[payload.eventId] + 1 ELSE 1)
                ELSE folds

\* What a transaction leaves in last: the payload, the documents it read and
\* what it returned or threw.
TransactionView(payload, r) ==
    [op |-> "processEvent", payload |-> payload,
     eventRead |-> Read(events, payload.eventId),
     sessionRead |-> Read(sessions, payload.sessionId),
     ok |-> r.ok,
     result |-> IF r.ok THEN r.value ELSE [kind |-> "error", message |-> r.message]]

----------------------------------------------------------------------------
(* The guard around a generic processor *)

\* The callers of the generic guard contend for one key.
GuardKeys == {"k1"}

GenericClaim(c) == \E k \in GuardKeys, r \in GenericRequests : ClaimWith(c, k, r)

GenericProcess(c) ==
    /\ calls[c].pc = "claimed"
    /\ \E outcome \in GenericOutcomes :
          calls' = [calls EXCEPT ![c] =
              [pc |-> "processed", key |-> calls[c].key,
               request |-> calls[c].request, proc |-> outcome]]
    /\ invoked' = [invoked EXCEPT ![calls[c].key] = @ + 1]
    /\ last' = [op |-> "processor", call |-> c, key |-> calls[c].key]
    /\ UNCHANGED << now, ticksLeft, idem, sessions, events, everAged,
                    evWrites, folds, applied, claimant >>

InitGuard ==
    /\ now = 0
    /\ ticksLeft = MaxTicks
    /\ idem = EmptyStore
    /\ sessions = EmptyStore
    /\ events = EmptyStore
    /\ calls = [c \in Calls |-> IdleCall]
    /\ invoked = [k \in Keys |-> 0]
    /\ everAged = [k \in Keys |-> FALSE]
    /\ evWrites = EmptyStore
    /\ folds = EmptyStore
    /\ applied = << >>
    /\ claimant = [k \in Keys |-> NoClaimant]
    /\ last = [op |-> "init"]

NextGuard ==
    \/ Tick
    \/ \E c \in Calls : GenericClaim(c)
    \/ \E c \in Calls : GenericProcess(c)
    \/ \E c \in Calls : Finalize(c)
    \/ \E c \in Calls : Crash(c)

SpecGuard == InitGuard /\ [][NextGuard]_vars

\* The guard over a store that may reject the update after the processor.
NextFaults ==
    \/ NextGuard
    \/ \E c \in Calls : FinalizeWithStoreError(c)

SpecFaults == InitGuard /\ [][NextFaults]_vars

----------------------------------------------------------------------------
(* Requests *)

EventIds == 1 .. MaxEvents
EventTypes == {"start", "update", "end"}

Metrics(calories, distance, heartRate, duration) ==
    Some([calories |-> calories, distance |-> distance,
          heartRate |-> heartRate, duration |-> duration])

\* requiresReconciliation and clockDriftDetected are the validator's
\* _requiresReconciliation and _clockDriftDetected; FALSE is the field left unset.
Payload(eventId, sessionId, eventType, timestamp, eventSequence, metrics, drift) ==
    [kind |-> "request",
     eventId |-> eventId,
     sessionId |-> sessionId,
     userId |-> "u1",
     eventType |-> eventType,
     timestamp |-> timestamp,
     eventSequence |-> eventSequence,
     metrics |-> metrics,
     requiresReconciliation |-> drift,
     clockDriftDetected |-> drift]

\* Event ids are used in order: a new event gets the first id not yet stored.
NextEventId(eventId) == eventId = Cardinality(DOMAIN events) + 1

\* The clock values at which the merge engine alone is run.
MergeClocks == {0, 5000}

\* Requests that differ in type, time and sequence number.
OrderPayloads ==
    {Payload(e, "s1", ty, ts, sq, Metrics(Some(2), Some(5), Some(60), Some(2)), FALSE) :
        e \in EventIds, ty \in EventTypes, ts \in {1000, 2000},
        sq \in {None, Some(0), Some(1), Some(2)}}

\* The metrics a request carries.
MetricChoices ==
    {None,
     Metrics(Some(0), None, None, None),
     Metrics(Some(1000), Some(4), None, None),
     Metrics(None, Some(9), Some(120), None),
     Metrics(Some(1), Some(0), Some(30), Some(2)),
     Metrics(None, None, Some(250), Some(0))}

\* Requests that differ in the metrics they carry.
MetricPayloads ==
    {Payload(e, "s1", ty, ts, None, m, FALSE) :
        e \in EventIds, ty \in {"start", "update"}, ts \in {1000, 2000},
        m \in MetricChoices}

----------------------------------------------------------------------------
(* validatePayload: the checks on the timestamp and on the metrics *)

OneHour == 60 * 60 * 1000
OneWeek == 7 * 24 * 60 * 60 * 1000

InRange(o, lo, hi) == IsSome(o) => (Get(o) >= lo /\ Get(o) <= hi)

\* The error validatePayload returns at time t, "" for none.
validatePayload(payload, t) ==
    IF payload.timestamp < t - OneWeek THEN "Timestamp too old (max 1 week)"
    ELSE IF payload.timestamp > t + OneHour
         THEN "Timestamp too far in future (max 1 hour)"
    ELSE IF ~InRange(Metric(payload, "calories"), 0, 1000)
         THEN "Invalid calories (0-1000)"
    ELSE IF ~InRange(Metric(payload, "distance"), 0, 100000)
         THEN "Invalid distance (0-100km)"
    ELSE IF ~InRange(Metric(payload, "heartRate"), 30, 250)
         THEN "Invalid heart rate (30-250)"
    ELSE IF ~InRange(Metric(payload, "duration"), 0, 14400)
         THEN "Invalid duration (0-4 hours)"
    ELSE IF IsSome(payload.eventSequence) /\ Get(payload.eventSequence) < 0
         THEN "Invalid event sequence"
    ELSE ""

\* Flag for reconciliation instead of rejection for moderate clock drift.
Annotated(payload, t) ==
    IF payload.timestamp < t - OneHour
    THEN [payload EXCEPT !.requiresReconciliation = TRUE, !.clockDriftDetected = TRUE]
    ELSE payload

----------------------------------------------------------------------------
(* ingestExerciseEvent: the endpoint *)

\* The response sent for what processWithIdempotency returned or threw.
HttpResponse(ret) ==
    IF ret.kind = "return"
    THEN [status |-> 200, body |-> ret.response]
    ELSE IF ret.message = "Request is already being processed"
         THEN [status |-> 409, body |-> [error |-> ret.message]]
         ELSE [status |-> 500, body |-> [error |-> "Processing failed"]]

\* The events clients report: the start of session s1, an update of it, and
\* an update of session s2, which no start creates, under the start's event id.
StartOfS1 ==
    Payload(1, "s1", "start", 1000, None, Metrics(Some(1000), Some(4), None, None), FALSE)
UpdateOfS1 ==
    Payload(2, "s1", "update", 2000, Some(2), Metrics(Some(1), Some(0), Some(30), Some(2)), FALSE)
UpdateOfS2 ==
    Payload(1, "s2", "update", 2000, None, Metrics(Some(3), None, None, None), FALSE)

\* The requests clients send, each an idempotency key and a payload: the
\* start under two keys, and two different payloads under key k2.
IngestRequests ==
    {<< "k1", StartOfS1 >>, << "k2", StartOfS1 >>,
     << "k1", UpdateOfS1 >>, << "k2", UpdateOfS2 >>}

\* A request arrives: it is validated, and a valid one enters the guard.
SubmitFrom(c, requests) ==
    \E q \in requests :
        LET k == q[1]
            p == q[2] IN
        IF validatePayload(p, now) # ""
        THEN /\ MayStart(c)
             /\ calls' = [calls EXCEPT ![c] = DoneCall]
             /\ last' = [op |-> "validate", call |-> c, key |-> k, request |-> p,
                         http |-> [status |-> 400,
                                   body |-> [error |-> validatePayload(p, now)]]]
             /\ UNCHANGED << now, ticksLeft, idem, sessions, events, invoked,
                             everAged, evWrites, folds, applied, claimant >>
        ELSE ClaimWith(c, k, Annotated(p, now))

Submit(c) == SubmitFrom(c, IngestRequests)

\* The processor of the endpoint: processEvent(payload).
ProcessEvent(c) ==
    /\ calls[c].pc = "claimed"
    /\ \E keepsReference \in BOOLEAN :
          LET payload == calls[c].request
              r == processEvent(payload, now, keepsReference) IN
          /\ RunTransaction(payload, r)
          /\ calls' = [calls EXCEPT ![c] =
                 [pc |-> "processed", key |-> calls[c].key, request |-> payload,
                  proc |-> IF r.ok THEN [ok |-> TRUE, value |-> r.value]
                           ELSE [ok |-> FALSE, message |-> r.message]]]
          /\ last' = TransactionView(payload, r)
    /\ invoked' = [invoked EXCEPT ![calls[c].key] = @ + 1]
    /\ UNCHANGED << now, ticksLeft, idem, everAged, applied, claimant >>

\* The requests in flight at the endpoint.
Requests == 1 .. MaxRequests

Init ==
    /\ now = 0
    /\ ticksLeft = MaxLongTicks
    /\ idem = EmptyStore
    /\ sessions = EmptyStore
    /\ events = EmptyStore
    /\ calls = [c \in Calls \cup Requests |-> IdleCall]
    /\ invoked = [k \in Keys |-> 0]
    /\ everAged = [k \in Keys |-> FALSE]
    /\ evWrites = EmptyStore
    /\ folds = EmptyStore
    /\ applied = << >>
    /\ claimant = [k \in Keys |-> NoClaimant]
    /\ last = [op |-> "init"]

\* Between the steps of the requests the clock stands still or moves on by
\* most of a day: past the processing timeout, and past a record's expiry
\* the second time.
LongTick == TickBy({ExpiryMs - PROCESSING_TIMEOUT_MS})

Next ==
    \/ LongTick
    \/ \E c \in Requests : Submit(c)
    \/ \E c \in Requests : ProcessEvent(c)
    \/ \E c \in Requests : Finalize(c)
    \/ \E c \in Requests : Crash(c)

Spec == Init /\ [][Next]_vars

----------------------------------------------------------------------------
(* Two clients start the same session *)

\* A second start of session s1: another event, reported half a second later.
SecondStartOfS1 ==
    Payload(3, "s1", "start", 1500, None, Metrics(Some(5), Some(9), None, None), FALSE)

StartRequests == {<< "k1", StartOfS1 >>, << "k2", SecondStartOfS1 >>}

SubmitStart(c) == SubmitFrom(c, StartRequests)

NextStarts ==
    \/ LongTick
    \/ \E c \in Requests : SubmitStart(c)
    \/ \E c \in Requests : ProcessEvent(c)
    \/ \E c \in Requests : Finalize(c)
    \/ \E c \in Requests : Crash(c)

SpecStarts == Init /\ [][NextStarts]_vars

----------------------------------------------------------------------------
(* The merge engine alone: processEvent transactions, one after the other *)

MergeTx(payload) ==
    /\ NextEventId(payload.eventId)
    /\ \E keepsReference \in BOOLEAN :
          LET r == processEvent(payload, now, keepsReference) IN
          /\ RunTransaction(payload, r)
          /\ last' = TransactionView(payload, r)
    /\ UNCHANGED << now, ticksLeft, idem, calls, invoked, everAged, applied, claimant >>

InitMerge ==
    /\ now \in MergeClocks
    /\ ticksLeft = 0
    /\ idem = EmptyStore
    /\ sessions = EmptyStore
    /\ events = EmptyStore
    /\ calls = [c \in Calls |-> IdleCall]
    /\ invoked = [k \in Keys |-> 0]
    /\ everAged = [k \in Keys |-> FALSE]
    /\ evWrites = EmptyStore
    /\ folds = EmptyStore
    /\ applied = << >>
    /\ claimant = [k \in Keys |-> NoClaimant]
    /\ last = [op |-> "init"]

NextOrder == \E p \in OrderPayloads : MergeTx(p)

SpecOrder == InitMerge /\ [][NextOrder]_vars

NextMetrics == \E p \in MetricPayloads : MergeTx(p)

SpecMetrics == InitMerge /\ [][NextMetrics]_vars

----------------------------------------------------------------------------
(* The merge engine with two sessions and event ids that repeat *)

SessionIds == {"s1", "s2"}

\* Requests for either session under any event id: an id may come again,
\* for the same session or for the other one.
RepeatPayloads ==
    {Payload(e, s, ty, ts, None, Metrics(Some(2), Some(5), None, None), FALSE) :
        e \in EventIds, s \in SessionIds, ty \in {"start", "update"},
        ts \in {1000}}

\* One processEvent transaction, whether or not the event id is new.
MergeRepeated(payload) ==
    /\ \E keepsReference \in BOOLEAN :
          LET r == processEvent(payload, now, keepsReference) IN
          /\ RunTransaction(payload, r)
          /\ last' = TransactionView(payload, r)
    /\ UNCHANGED << now, ticksLeft, idem, calls, invoked, everAged, applied, claimant >>

NextRepeat == \E p \in RepeatPayloads : MergeRepeated(p)

SpecRepeat == InitMerge /\ [][NextRepeat]_vars

----------------------------------------------------------------------------
(* The merge engine behind the validator: events reported late *)

\* The clock stands a little over two hours after the oldest events.
DriftClock == 2 * OneHour + 5000

\* Requests whose events are more than an hour old (at 1 s and 2 s), or fresh.
DriftPayloads ==
    {Payload(e, "s1", ty, ts, sq, Metrics(Some(2), Some(5), None, None), FALSE) :
        e \in EventIds, ty \in {"start", "update"},
        ts \in {1000, 2000, 2 * OneHour}, sq \in {None, Some(1)}}

\* A request passes validatePayload, which annotates it, and is merged.
MergeValidated(payload) ==
    /\ validatePayload(payload, now) = ""
    /\ MergeTx(Annotated(payload, now))

InitDrift ==
    /\ now = DriftClock
    /\ ticksLeft = 0
    /\ idem = EmptyStore
    /\ sessions = EmptyStore
    /\ events = EmptyStore
    /\ calls = [c \in Calls |-> IdleCall]
    /\ invoked = [k \in Keys |-> 0]
    /\ everAged = [k \in Keys |-> FALSE]
    /\ evWrites = EmptyStore
    /\ folds = EmptyStore
    /\ applied = << >>
    /\ claimant = [k \in Keys |-> NoClaimant]
    /\ last = [op |-> "init"]

NextDrift == \E p \in DriftPayloads : MergeValidated(p)

SpecDrift == InitDrift /\ [][NextDrift]_vars

----------------------------------------------------------------------------
(* The merge engine behind the validator: events dated ahead of the clock *)

\* The clock when the first request arrives, and the step by which it advances.
AheadClock == 5000
HalfHour == OneHour \div 2

\* Requests whose events are dated before the clock, half an hour or exactly
\* an hour ahead of it, and one millisecond more than an hour ahead.
AheadPayloads ==
    {Payload(e, "s1", ty, ts, None, Metrics(Some(2), Some(5), None, None), FALSE) :
        e \in EventIds, ty \in EventTypes,
        ts \in {1000, AheadClock + HalfHour, AheadClock + OneHour,
                AheadClock + OneHour + 1}}

InitAhead ==
    /\ now = AheadClock
    /\ ticksLeft = MaxLongTicks
    /\ idem = EmptyStore
    /\ sessions = EmptyStore
    /\ events = EmptyStore
    /\ calls = [c \in Calls |-> IdleCall]
    /\ invoked = [k \in Keys |-> 0]
    /\ everAged = [k \in Keys |-> FALSE]
    /\ evWrites = EmptyStore
    /\ folds = EmptyStore
    /\ applied = << >>
    /\ claimant = [k \in Keys |-> NoClaimant]
    /\ last = [op |-> "init"]

\* Between two requests the clock stands still or moves on by half an hour.
HalfHourTick == TickBy({HalfHour})

NextAhead ==
    \/ HalfHourTick
    \/ \E p \in AheadPayloads : MergeValidated(p)

SpecAhead == InitAhead /\ [][NextAhead]_vars

----------------------------------------------------------------------------
(* The metric aggregator alone: updateSessionMetrics applied to a new session *)

\* The start events that create the session.
StartPayloads ==
    {Payload(1, "s1", "start", ts, None, m, FALSE) :
        ts \in {1000, 2000}, m \in MetricChoices}

\* What updateSessionMetrics may be handed: heart rates outside (0, 250] too.
AggregatePayloads ==
    {Payload(1, "s1", "update", ts, None, m, FALSE) :
        ts \in {1000, 2000},
        m \in MetricChoices \cup {Metrics(Some(2), None, Some(251), Some(5)),
                                 Metrics(None, Some(1), Some(0), Some(3)),
                                 Metrics(None, None, Some(60), Some(1))}}

InitAggregate ==
    /\ now \in MergeClocks
    /\ ticksLeft = 0
    /\ idem = EmptyStore
    /\ \E p \in StartPayloads :
          /\ sessions = [s \in {"s1"} |-> createNewSession(p, now)]
          /\ applied = << p >>
    /\ events = EmptyStore
    /\ calls = [c \in Calls |-> IdleCall]
    /\ invoked = [k \in Keys |-> 0]
    /\ everAged = [k \in Keys |-> FALSE]
    /\ evWrites = EmptyStore
    /\ folds = EmptyStore
    /\ claimant = [k \in Keys |-> NoClaimant]
    /\ last = [op |-> "init"]

Aggregate(payload) ==
    /\ Len(applied) < MaxEvents
    /\ sessions' = [sessions EXCEPT !["s1"] = updateSessionMetrics(@, payload, now)]
    /\ applied' = Append(applied, payload)
    /\ last' = [op |-> "updateSessionMetrics", payload |-> payload,
                sessionRead |-> Some(sessions["s1"])]
    /\ UNCHANGED << now, ticksLeft, idem, events, calls, invoked, everAged,
                    evWrites, folds, claimant >>

NextAggregate == \E p \in AggregatePayloads : Aggregate(p)

SpecAggregate == InitAggregate /\ [][NextAggregate]_vars

----------------------------------------------------------------------------
(* Claims about the idempotency guard *)

\* C1: for every key, as long as no record of the key has expired and no
\* processing claim has aged past the timeout, the processor has been invoked
\* at most once for that key.
C1_ProcessorAtMostOnce ==
    \A k \in Keys : ~everAged[k] => invoked[k] <= 1

\* C2: a call that finds a completed, unexpired record returns
\* {isNew: false, response: r} with r the recorded response, whatever r is,
\* and leaves the record as it was (so the processor is not run for it).
C2_CompletedIsReplayed ==
    (/\ last.op = "claim"
     /\ IsSome(last.read)
     /\ Get(last.read).status = "completed"
     /\ now < Get(last.read).expiresAt)
    => /\ last.decision = "cached"
       /\ last.ret = Some(Returned(FALSE, Get(last.read).response))
       /\ idem[last.key] = Get(last.read)

----------------------------------------------------------------------------
(* Claims about the metric aggregator *)

\* The events stored for session sid that were accepted (not out of order).
Accepted(sid) ==
    {e \in DOMAIN events : events[e].sessionId = sid /\ ~events[e].outOfOrder}

\* The value of metric f that a stored event carries, if any.
Carried(e, f) ==
    IF IsSome(events[e].metrics) THEN Get(events[e].metrics)[f] ELSE None

RECURSIVE SumOf(_, _)
SumOf(S, f) ==
    IF S = {} THEN 0
    ELSE LET e == CHOOSE x \in S : TRUE IN
         (IF IsSome(Carried(e, f)) THEN Get(Carried(e, f)) ELSE 0) + SumOf(S \ {e}, f)

\* C5: the calories of every stored event are >= 0, and a session's
\* caloriesBurned is the sum of the calories of its accepted events, the
\* creating start event included.
C5_CaloriesAreTheSum ==
    /\ \A e \in DOMAIN events :
          IsSome(Carried(e, "calories")) => Get(Carried(e, "calories")) >= 0
    /\ \A sid \in DOMAIN sessions :
          sessions[sid].metrics.caloriesBurned = SumOf(Accepted(sid), "calories")

\* Three events with calories, two of them accepted and one out of order.
C5_Witness ==
    /\ "s1" \in DOMAIN sessions
    /\ sessions["s1"].metrics.caloriesBurned = 1001
    /\ \E e \in DOMAIN events :
          /\ events[e].outOfOrder
          /\ Carried(e, "calories") = Some(1000)

\* The distances carried by the accepted events of session sid.
AcceptedDistances(sid) ==
    {Get(Carried(e, "distance")) : e \in {x \in Accepted(sid) : IsSome(Carried(x, "distance"))}}

DistanceIsTheMaximum ==
    \A sid \in DOMAIN sessions :
        AcceptedDistances(sid) # {} =>
            /\ sessions[sid].metrics.distance \in AcceptedDistances(sid)
            /\ \A d \in AcceptedDistances(sid) : d <= sessions[sid].metrics.distance

DistanceNeverDecreases ==
    \A sid \in DOMAIN sessions :
        sessions'[sid].metrics.distance >= sessions[sid].metrics.distance

\* C6: a session's distance is the maximum of the distances carried by its
\* accepted events, the creating start event included, and no step decreases it.
C6_DistanceIsMonotonicMax ==
    /\ []DistanceIsTheMaximum
    /\ [][DistanceNeverDecreases]_vars

\* An accepted event with distance 4 stored after one with distance 9.
C6_Witness ==
    /\ "s1" \in DOMAIN sessions
    /\ sessions["s1"].metrics.distance = 9
    /\ \E a, b \in Accepted("s1") :
          /\ a < b
          /\ Carried(a, "distance") = Some(9)
          /\ Carried(b, "distance") = Some(4)

\* The heart-rate readings among the payloads applied so far: those with a
\* heart rate in (0, 250].
IsReading(payload) ==
    /\ IsSome(Metric(payload, "heartRate"))
    /\ Get(Metric(payload, "heartRate")) > 0
    /\ Get(Metric(payload, "heartRate")) <= 250

Readings == SelectSeq(applied, IsReading)

HeartRateOf(payload) == Get(Metric(payload, "heartRate"))

\* max(dur, 1), an absent duration counting as 0.
ClampedDuration(payload) ==
    LET d == Metric(payload, "duration")
        v == IF IsSome(d) THEN Get(d) ELSE 0 IN
    IF v > 1 THEN v ELSE 1

RECURSIVE WeightSum(_)
WeightSum(rs) ==
    IF rs = << >> THEN 0 ELSE ClampedDuration(Head(rs)) + WeightSum(Tail(rs))

RECURSIVE WeightedSum(_)
WeightedSum(rs) ==
    IF rs = << >> THEN 0
    ELSE HeartRateOf(Head(rs)) * ClampedDuration(Head(rs)) + WeightedSum(Tail(rs))

\* heartRateDataPoints is the sum of max(dur, 1) and heartRateAvg times
\* heartRateDataPoints is the sum of hr * max(dur, 1), over the readings.
HeartRateIsTheWeightedMean ==
    LET m == sessions["s1"].metrics IN
    /\ m.heartRateDataPoints = WeightSum(Readings)
    /\ IF Readings = << >>
       THEN m.heartRateAvg = None
       ELSE /\ IsSome(m.heartRateAvg)
            /\ Get(m.heartRateAvg).num * m.heartRateDataPoints
                 = WeightedSum(Readings) * Get(m.heartRateAvg).den

\* A payload whose heart rate is outside (0, 250] changes neither field.
OutsideReadingIsDropped ==
    (/\ last.op = "updateSessionMetrics"
     /\ ~IsReading(last.payload))
    => /\ sessions["s1"].metrics.heartRateAvg = Get(last.sessionRead).metrics.heartRateAvg
       /\ sessions["s1"].metrics.heartRateDataPoints
            = Get(last.sessionRead).metrics.heartRateDataPoints

\* Exactly two readings, both with a duration supplied.
TwoReadings ==
    /\ Len(Readings) = 2
    /\ IsSome(Metric(Readings[1], "duration"))
    /\ IsSome(Metric(Readings[2], "duration"))

DurationOf(payload) == Get(Metric(payload, "duration"))

\* avg = (hr1*dur1 + hr2*dur2) / (dur1 + dur2)
TwoReadingAverage ==
    LET avg == Get(sessions["s1"].metrics.heartRateAvg)
        r1 == Readings[1]
        r2 == Readings[2] IN
    avg.num * (DurationOf(r1) + DurationOf(r2))
      = (HeartRateOf(r1) * DurationOf(r1) + HeartRateOf(r2) * DurationOf(r2)) * avg.den

\* C7 as stated: the weighted mean with weights max(dur, 1), readings outside
\* (0, 250] dropped, and for any two readings the average
\* (hr1*dur1 + hr2*dur2) / (dur1 + dur2).
C7_Original ==
    /\ HeartRateIsTheWeightedMean
    /\ OutsideReadingIsDropped
    /\ TwoReadings => TwoReadingAverage

\* C7 amended: the same, the two-reading average only for durations >= 1.
C7_HeartRateWeightedMean ==
    /\ HeartRateIsTheWeightedMean
    /\ OutsideReadingIsDropped
    /\ (/\ TwoReadings
        /\ DurationOf(Readings[1]) >= 1
        /\ DurationOf(Readings[2]) >= 1) => TwoReadingAverage

\* Two readings with durations 2 and 1 and a heart rate of 251 between them.
C7_Witness ==
    /\ Len(applied) = 3
    /\ TwoReadings
    /\ DurationOf(Readings[1]) = 2
    /\ DurationOf(Readings[2]) = 1
    /\ ~IsReading(applied[2])
    /\ Metric(applied[2], "heartRate") = Some(251)
    /\ sessions["s1"].metrics.heartRateAvg = Some(Rat(40, 1))

----------------------------------------------------------------------------
(* Claims about the out-of-order detector *)

\* The last step merged an event into a session that existed.
MergedIntoExisting ==
    /\ last.op = "processEvent"
    /\ last.ok
    /\ ~IsSome(last.eventRead)
    /\ IsSome(last.sessionRead)

\* C8: an event merged into an existing session is stored outOfOrder = true
\* exactly when its eventSequence is supplied and <= the session's
\* lastEventSequence, or its timestamp is < the session's lastEventTime.
C8_OutOfOrderExactly ==
    MergedIntoExisting =>
        LET p == last.payload
            before == Get(last.sessionRead) IN
        events[p.eventId].outOfOrder
          <=> \/ /\ IsSome(p.eventSequence)
                 /\ Get(p.eventSequence) <= before.lastEventSequence
              \/ p.timestamp < before.lastEventTime

\* C9: an event flagged out of order is stored with outOfOrder = true, the
\* session requires reconciliation for 'out_of_order', and its metrics,
\* startTime, endTime, status and version are as they were before.
C9_OutOfOrderIsQuarantined ==
    (/\ MergedIntoExisting
     /\ OutOfOrder(Get(last.sessionRead), last.payload))
    => LET p == last.payload
           before == Get(last.sessionRead)
           after == sessions[p.sessionId] IN
       /\ p.eventId \in DOMAIN events
       /\ events[p.eventId].outOfOrder
       /\ after.requiresReconciliation = Some(TRUE)
       /\ after.reconciliationReason = Some("out_of_order")
       /\ after.metrics = before.metrics
       /\ after.startTime = before.startTime
       /\ after.endTime = before.endTime
       /\ after.status = before.status
       /\ after.version = before.version
       /\ after = [before EXCEPT
                     !.requiresReconciliation = after.requiresReconciliation,
                     !.reconciliationReason = after.reconciliationReason,
                     !.lastEventSequence = after.lastEventSequence,
                     !.lastEventTime = after.lastEventTime]

\* An end event with metrics, out of order by sequence, after a merged update:
\* the session stays active and keeps its totals.
C9_Witness ==
    /\ MergedIntoExisting
    /\ last.payload.eventType = "end"
    /\ SequenceOutOfOrder(Get(last.sessionRead), last.payload)
    /\ ~TimeOutOfOrder(Get(last.sessionRead), last.payload)
    /\ Get(last.sessionRead).version = 2
    /\ sessions["s1"].status = "active"
    /\ sessions["s1"].version = 2
    /\ events[last.payload.eventId].outOfOrder

----------------------------------------------------------------------------
(* Claims about the endpoint: deduplication by event id, missing sessions *)

\* The last step was a processEvent transaction that found the Event document.
FoundEvent ==
    /\ last.op = "processEvent"
    /\ IsSome(last.eventRead)

\* The last step finished a request whose processor answered 'already_processed'.
AnsweredAlreadyProcessed ==
    /\ last.op = "finalize"
    /\ last.proc.ok
    /\ last.proc.value.status = "already_processed"

\* C3: the Event document of an event id is written once; a request whose
\* event id is already stored gets 'already_processed' with a warning, its
\* transaction leaves the Event and the Session document as they were, and
\* the request is answered 200.
C3_DuplicateEventIsNoOp ==
    /\ \A e \in DOMAIN evWrites : evWrites[e] = 1 /\ e \in DOMAIN events
    /\ FoundEvent =>
          /\ last.ok
          /\ last.result = AlreadyProcessed(last.payload)
          /\ last.result.warning # ""
          /\ Read(events, last.payload.eventId) = last.eventRead
          /\ Read(sessions, last.payload.sessionId) = last.sessionRead
    /\ AnsweredAlreadyProcessed =>
          /\ HttpResponse(Get(last.ret)).status = 200
          /\ HttpResponse(Get(last.ret)).body = AlreadyProcessed(last.request)
          /\ idem[last.key].status = "completed"

\* The start of s1 was submitted under k1 and under k2, each claimed its key,
\* and the second transaction found the event of the first.
C3_Witness ==
    /\ FoundEvent
    /\ last.payload = StartOfS1
    /\ invoked = [k \in Keys |-> 1]
    /\ evWrites = (1 :> 1)
    /\ \A c \in Requests : calls[c].pc = "processed"

\* C4: the metrics of an event id are folded into a session at most once,
\* however often processEvent runs for it.
C4_FoldedAtMostOnce ==
    \A e \in DOMAIN folds : folds[e] <= 1

\* The start of s1 ran twice under k1, the second run after a takeover of
\* the first one's claim, and found the event stored.
C4_Witness ==
    /\ FoundEvent
    /\ last.payload.eventId = 1
    /\ last.payload.eventType = "start"
    /\ invoked["k1"] = 2
    /\ invoked["k2"] = 0
    /\ everAged["k1"]
    /\ folds = (1 :> 1)

\* The last step was a processEvent transaction for an update or end event
\* that found no Session document.
NoSessionForUpdate ==
    /\ last.op = "processEvent"
    /\ last.payload.eventType # "start"
    /\ ~IsSome(last.sessionRead)

\* The transaction failed and wrote neither document.
FailedWithoutWrites ==
    /\ ~last.ok
    /\ last.result.message = "Cannot create session without start event"
    /\ last.payload.sessionId \notin DOMAIN sessions
    /\ Read(events, last.payload.eventId) = last.eventRead

\* A request whose processor failed for the missing session is finished with
\* the record in status failed and the response 500 'Processing failed'.
MissingSessionIsReported ==
    (/\ last.op = "finalize"
     /\ ~last.proc.ok
     /\ last.proc.message = "Cannot create session without start event")
    => /\ idem[last.key].status = "failed"
       /\ idem[last.key].error = "Cannot create session without start event"
       /\ HttpResponse(Get(last.ret))
            = [status |-> 500, body |-> [error |-> "Processing failed"]]

\* C10 as stated: every update or end event for a session that does not
\* exist fails, writes nothing, leaves its record failed and is answered 500.
C10_Original ==
    /\ NoSessionForUpdate => FailedWithoutWrites
    /\ MissingSessionIsReported

\* C10 amended: so it is when no Event document is stored for the event id.
C10_MissingSessionFails ==
    /\ (NoSessionForUpdate /\ ~IsSome(last.eventRead)) =>
          /\ FailedWithoutWrites
          /\ last.payload.eventId \notin DOMAIN events
    /\ MissingSessionIsReported

\* The update of s2 was claimed, failed in processEvent and was finished.
C10_Witness ==
    /\ last.op = "finalize"
    /\ last.request = UpdateOfS2
    /\ ~last.proc.ok
    /\ idem["k2"].status = "failed"
    /\ sessions = EmptyStore
    /\ events = EmptyStore

----------------------------------------------------------------------------
(* Claims about two starts of one session *)

\* The last step was a processEvent transaction of a start event that was
\* not stored before.
RanNewStart ==
    /\ last.op = "processEvent"
    /\ last.payload.eventType = "start"
    /\ ~IsSome(last.eventRead)

\* The session the transaction read is still there: nothing it held was
\* replaced by what a new session would hold.
FirstCreationKept ==
    LET before == Get(last.sessionRead)
        after == sessions[last.payload.sessionId] IN
    /\ after.startTime <= before.startTime
    /\ after.metrics.caloriesBurned >= before.metrics.caloriesBurned
    /\ after.metrics.distance >= before.metrics.distance
    /\ after.lastEventTime >= before.lastEventTime
    /\ after.version >= before.version
    /\ \/ after.version = before.version + 1
       \/ after.requiresReconciliation = Some(TRUE)

\* C11: two starts of one session under two keys and two event ids: each is
\* claimed, its transaction succeeds and it is answered 200; the second
\* transaction merges into the session the first created, and the store holds
\* one Session document and the two Event documents.
C11_ConcurrentStartsMakeOneSession ==
    /\ (last.op = "claim" /\ ~IsSome(last.read)) => last.decision = "claim"
    /\ RanNewStart =>
          /\ last.ok
          /\ last.result.status = "success"
          /\ last.payload.eventId \in DOMAIN events
          /\ IsSome(last.sessionRead) => FirstCreationKept
    /\ (last.op = "finalize" /\ last.request.eventType = "start") =>
          HttpResponse(Get(last.ret)).status = 200
    /\ DOMAIN sessions \subseteq {"s1"}
    /\ DOMAIN events # {} => DOMAIN sessions = {"s1"}
    /\ DOMAIN events \subseteq {1, 3}

\* Both starts were claimed before either ran; both ran, and the second of
\* them has just been answered.
C11_Witness ==
    /\ last.op = "finalize"
    /\ HttpResponse(Get(last.ret)).status = 200
    /\ \A c \in Requests : calls[c] = DoneCall
    /\ invoked = [k \in Keys |-> 1]
    /\ idem["k1"].status = "completed" /\ idem["k2"].status = "completed"
    /\ idem["k1"].createdAt = idem["k2"].createdAt
    /\ DOMAIN sessions = {"s1"}
    /\ DOMAIN events = {1, 3}
    /\ sessions["s1"].version = 2

----------------------------------------------------------------------------
(* Claims about the guard: takeover, rejection, status transitions *)

\* The record the last claim transaction read was not expired.
ReadLiveRecord ==
    /\ last.op = "claim"
    /\ IsSome(last.read)
    /\ now < Get(last.read).expiresAt

\* The last step was a claim that found a processing record older than the timeout.
FoundStaleClaim ==
    /\ ReadLiveRecord
    /\ Get(last.read).status = "processing"
    /\ ProcessingAge(Get(last.read), now) > PROCESSING_TIMEOUT_MS

\* The last step finalized, with success, the attempt that took the key over.
TakeoverSucceeded ==
    /\ last.op = "finalize"
    /\ last.proc.ok
    /\ claimant[last.key].call = last.call
    /\ claimant[last.key].takeover

\* The record of key k is completed with the response the takeover attempt
\* returned, until it expires.
TakeoverOutcomeStays(k) ==
    LET settled == claimant[k].settled IN
    (IsSome(settled) /\ now < Get(settled).expiresAt)
    => /\ idem[k].status = "completed"
       /\ idem[k].response = Get(settled).response

\* C12: a call that finds a live processing record older than the timeout
\* writes a new claim and goes on to the processor; when that attempt ends
\* with success the record is completed with its response, and stays so
\* until expiry, whenever the original attempt finalizes.
C12_TakeoverOutcomeIsRecorded ==
    /\ FoundStaleClaim =>
          /\ last.decision = "claim"
          /\ idem[last.key] = NewRecord(last.key, last.request, now)
          /\ calls[last.call].pc = "claimed"
    /\ TakeoverSucceeded =>
          /\ idem[last.key].status = "completed"
          /\ idem[last.key].response = last.proc.value
    /\ \A k \in Keys : TakeoverOutcomeStays(k)

\* The last step was a claim that found a processing record not older than
\* the timeout.
FoundFreshClaim ==
    /\ ReadLiveRecord
    /\ Get(last.read).status = "processing"
    /\ ProcessingAge(Get(last.read), now) <= PROCESSING_TIMEOUT_MS

\* The call of the last claim step threw message, without going on to the
\* processor and without a write to the record.
RejectedWith(message) ==
    /\ last.ret = Some([kind |-> "throw", message |-> message])
    /\ calls[last.call] = DoneCall
    /\ idem[last.key] = Get(last.read)

\* C13: a call that finds a live processing record of age <= timeout fails
\* with 'Request is already being processed', the processor is not invoked
\* and the record is unchanged.
C13_FreshClaimRejects ==
    FoundFreshClaim =>
        /\ last.decision = "concurrent"
        /\ RejectedWith("Request is already being processed")

\* A call found a claim exactly as old as the timeout.
C13_Witness ==
    /\ FoundFreshClaim
    /\ ProcessingAge(Get(last.read), now) = PROCESSING_TIMEOUT_MS
    /\ last.decision = "concurrent"

\* The last step was a claim that found a live record in status failed.
FoundFailed ==
    /\ ReadLiveRecord
    /\ Get(last.read).status = "failed"

\* Such a call fails with the previous-attempt-failed error, without going
\* on to the processor and without a write to the record.
FailedRecordRejects ==
    FoundFailed =>
        /\ last.decision = "previous_failed"
        /\ RejectedWith("Previous request failed, please retry with new idempotency key")

\* The processor has just run under a key whose record is failed and live.
RanWhileFailed ==
    /\ last.op = "processor"
    /\ idem[last.key].status = "failed"
    /\ now < idem[last.key].expiresAt

RejectedAsConcurrent ==
    /\ last.op = "claim"
    /\ last.decision = "concurrent"

\* C18: a claim whose owner never finalizes does not wedge the key: every
\* call that finds it live and older than 2 minutes claims the key and goes
\* on to the processor, and a call is rejected as concurrent only within the
\* timeout of the claim it conflicts with.
C18_KeyIsNeverWedged ==
    /\ FoundStaleClaim =>
          /\ last.decision = "claim"
          /\ claimant[last.key] = [call |-> last.call, takeover |-> TRUE,
                                   settled |-> claimant[last.key].settled]
          /\ calls[last.call].pc = "claimed"
          /\ Get(idem[last.key].processingStartedAt) = now
    /\ RejectedAsConcurrent =>
          /\ IsSome(last.read)
          /\ ProcessingAge(Get(last.read), now) <= PROCESSING_TIMEOUT_MS

\* The owner of a claim crashed; more than 2 minutes after its claim another
\* call took the key over and its processor ran.
C18_Witness ==
    /\ last.op = "processor"
    /\ claimant[last.key].call = last.call
    /\ claimant[last.key].takeover
    /\ \E c \in Calls : c < last.call /\ calls[c] = CrashedCall
    /\ \A c \in Calls : c < last.call => calls[c] = CrashedCall
    /\ invoked[last.key] = 1
    /\ idem[last.key].status = "processing"

\* The response field of a record, if it has one.
ResponseOf(data) == IF "response" \in DOMAIN data THEN Some(data.response) ELSE None

\* What a step may do to the live record of key k: leave status and response
\* alone, or take a processing record to completed or failed.
StatusStep(k) ==
    now < idem[k].expiresAt =>
        /\ k \in DOMAIN idem'
        /\ \/ /\ idem'[k].status = idem[k].status
              /\ idem[k].status \in {"completed", "failed"}
                    => ResponseOf(idem'[k]) = ResponseOf(idem[k])
           \/ /\ idem[k].status = "processing"
              /\ idem'[k].status \in {"completed", "failed"}

\* C20: the status of a live record changes only from processing to
\* completed or to failed; a completed or failed record keeps its status and
\* its response, also when the original attempt of a takeover finalizes late.
C20_StatusTransitions == [][\A k \in DOMAIN idem : StatusStep(k)]_vars

\* The last step ended a call whose processor had thrown.
ProcessorFailed ==
    /\ last.op = "finalize"
    /\ ~last.proc.ok

\* C21: when the processor of a claimed key throws, the record is updated to
\* status failed with the error message, and the caller gets that error,
\* never a success response.
C21_FailureIsRecorded ==
    ProcessorFailed =>
        /\ idem[last.key].status = "failed"
        /\ "error" \in DOMAIN idem[last.key]
        /\ idem[last.key].error = last.proc.message
        /\ idem[last.key].failedAt = now
        /\ last.ret = Some([kind |-> "throw", message |-> last.proc.message])

\* The processor of the only attempt under the key threw 'boom'.
C21_Witness ==
    /\ ProcessorFailed
    /\ last.proc.message = "boom"
    /\ Get(last.read).status = "processing"
    /\ invoked[last.key] = 1
    /\ idem[last.key].status = "failed"

\* The last step ended a call whose processor had succeeded and whose
\* update to status completed the store rejected.
CompletionRejected ==
    /\ last.op = "finalize_rejected"
    /\ last.proc.ok

\* C22: if the update to completed fails after the processor succeeded, the
\* record stays as it was, in status processing, and is not moved to failed.
C22_FailedCompletionStaysProcessing ==
    CompletionRejected =>
        /\ idem[last.key] = Get(last.read)
        /\ Get(last.read).status = "processing" => idem[last.key].status = "processing"

\* The last step was a claim transaction that found no record, or one with
\* now >= expiresAt.
FoundNoLiveRecord ==
    /\ last.op = "claim"
    /\ IsSome(last.read) => now >= Get(last.read).expiresAt

\* C23: a call whose key has no record, or an expired one in any status,
\* writes a fresh processing record (processingStartedAt = now, expiresAt =
\* now + 24h) and goes on to the processor; an expired record is neither
\* replayed nor reported as failed.
C23_ExpiredRecordIsAbsent ==
    FoundNoLiveRecord =>
        /\ last.decision = "claim"
        /\ last.ret = None
        /\ idem[last.key].status = "processing"
        /\ idem[last.key].processingStartedAt = Some(now)
        /\ idem[last.key].createdAt = now
        /\ idem[last.key].expiresAt = now + 24 * 60 * 60 * 1000
        /\ idem[last.key].request = last.request
        /\ DOMAIN idem[last.key]
             = {"key", "request", "status", "createdAt", "processingStartedAt", "expiresAt"}
        /\ calls[last.call].pc = "claimed"

\* A call found a completed record with a response at the instant of its
\* expiry, and claimed the key.
C23_Witness ==
    /\ FoundNoLiveRecord
    /\ IsSome(last.read)
    /\ Get(last.read).status = "completed"
    /\ HasResponse(Get(last.read))
    /\ now = Get(last.read).expiresAt
    /\ last.decision = "claim"

----------------------------------------------------------------------------
(* Claims about stored documents: events, reconciliation flag, watermarks *)

\* Every Event document of this state is there, with the same fields, in the next.
EventsAreKept ==
    \A e \in DOMAIN events :
        /\ e \in DOMAIN events'
        /\ events'[e] = events[e]

\* C15: once an Event document exists, no step changes a field of it
\* (outOfOrder and clockDriftDetected included) or deletes it.
C15_EventIsImmutable == [][EventsAreKept]_vars

\* Most of a day after the start of s1 was stored it was submitted again, now
\* with clock drift detected, and its transaction ran.
C15_Witness ==
    /\ FoundEvent
    /\ last.payload.eventId = 1
    /\ last.payload.clockDriftDetected
    /\ ~events[1].clockDriftDetected
    /\ events[1].serverTimestamp < now

\* Every session flagged in this state is flagged in the next.
FlagIsKept ==
    \A s \in DOMAIN sessions :
        sessions[s].requiresReconciliation = Some(TRUE)
        => /\ s \in DOMAIN sessions'
           /\ sessions'[s].requiresReconciliation = Some(TRUE)

\* C16: a stored session with requiresReconciliation = true has it in every
\* later state, whatever is merged afterwards.
C16_ReconciliationIsSticky == [][FlagIsKept]_vars

\* An event in order was folded into a session that was flagged before.
C16_Witness ==
    /\ last.op = "processEvent"
    /\ IsSome(last.sessionRead)
    /\ Get(last.sessionRead).requiresReconciliation = Some(TRUE)
    /\ last.ok
    /\ last.result.status = "success"
    /\ ~last.result.outOfOrder
    /\ sessions["s1"].version = Get(last.sessionRead).version + 1
    /\ sessions["s1"].requiresReconciliation = Some(TRUE)

\* The Event documents stored for session s.
EventsOf(s) == {e \in DOMAIN events : events[e].sessionId = s}

\* The largest number of a non-empty set of numbers.
Largest(S) == CHOOSE m \in S : \A x \in S : x <= m

\* The watermarks of every session are the maxima over its Event documents.
WatermarksAreMaxima ==
    \A s \in DOMAIN sessions :
        /\ EventsOf(s) # {}
        /\ sessions[s].lastEventSequence
             = Largest({events[e].eventSequence : e \in EventsOf(s)})
        /\ sessions[s].lastEventTime
             = Largest({events[e].timestamp : e \in EventsOf(s)})

\* No step lowers a watermark.
WatermarksNeverDecrease ==
    \A s \in DOMAIN sessions :
        /\ s \in DOMAIN sessions'
        /\ sessions'[s].lastEventSequence >= sessions[s].lastEventSequence
        /\ sessions'[s].lastEventTime >= sessions[s].lastEventTime

\* C17: lastEventSequence is the maximum eventSequence (absent counted as 0)
\* and lastEventTime the maximum timestamp over the Event documents of the
\* session, out-of-order ones included; neither ever decreases.
C17_WatermarksAreMaxima == []WatermarksAreMaxima /\ [][WatermarksNeverDecrease]_vars

\* An out-of-order event with the highest sequence number so far was stored:
\* its time is below the watermark, its sequence number raised the other one.
C17_Witness ==
    /\ last.op = "processEvent"
    /\ last.ok
    /\ last.result.status = "success"
    /\ last.result.outOfOrder
    /\ IsSome(last.sessionRead)
    /\ last.payload.timestamp < Get(last.sessionRead).lastEventTime
    /\ sessions["s1"].lastEventSequence > Get(last.sessionRead).lastEventSequence
    /\ sessions["s1"].lastEventSequence = Get(last.payload.eventSequence)
    /\ Cardinality(EventsOf("s1")) = 3

----------------------------------------------------------------------------
(* Claims about the responses of the endpoint *)

\* The response to the request that the last step ended.
Answer == HttpResponse(Get(last.ret))

ProcessingFailed == [status |-> 500, body |-> [error |-> "Processing failed"]]

\* C19: a concurrent-claim conflict is answered 409 'Request is already being
\* processed'; a previous failure and a failed merge are answered 500
\* 'Processing failed'; a cached, successful or already-processed outcome is
\* answered 200 with that outcome; no failure is answered 200.
C19_ResponseMapping ==
    /\ last.op = "claim" =>
          /\ last.decision = "concurrent" =>
                Answer = [status |-> 409,
                          body |-> [error |-> "Request is already being processed"]]
          /\ last.decision = "previous_failed" => Answer = ProcessingFailed
          /\ last.decision = "cached" =>
                Answer = [status |-> 200, body |-> Get(last.read).response]
    /\ last.op = "finalize" =>
          /\ ~last.proc.ok => Answer = ProcessingFailed
          /\ last.proc.ok =>
                /\ Answer = [status |-> 200, body |-> last.proc.value]
                /\ last.proc.value.status \in {"success", "already_processed"}

\* An update of a missing session failed; the next request with its key was
\* rejected for the previous failure and answered 500.
C19_Witness ==
    /\ last.op = "claim"
    /\ last.decision = "previous_failed"
    /\ Get(last.read).error = "Cannot create session without start event"
    /\ Answer = ProcessingFailed

----------------------------------------------------------------------------
(* Claims about the session's version, markers and status *)

\* The events of session s that were folded into it: not out of order.
FoldedEventsOf(s) == {e \in EventsOf(s) : ~events[e].outOfOrder}

\* No step lowers a version or raises it by more than 1.
VersionStepsByOne ==
    \A s \in DOMAIN sessions :
        /\ s \in DOMAIN sessions'
        /\ sessions'[s].version >= sessions[s].version
        /\ sessions'[s].version <= sessions[s].version + 1

\* The version is 1 plus the number of events stored after the creating one.
VersionCountsMerges ==
    \A s \in DOMAIN sessions :
        sessions[s].version - 1 = Cardinality(EventsOf(s)) - 1

\* The version is 1 plus the number of events folded after the creating one.
VersionCountsFolds ==
    \A s \in DOMAIN sessions :
        /\ sessions[s].version >= 1
        /\ sessions[s].version - 1 = Cardinality(FoldedEventsOf(s)) - 1

\* C24 as stated: the version is 1 on creation and every merge into the
\* existing session, out-of-order ones included, adds 1: version - 1 is the
\* number of events merged after creation.
C24_Original == []VersionCountsMerges /\ [][VersionStepsByOne]_vars

\* C24 amended: every merge that folds its event adds 1 and an out-of-order
\* merge adds nothing: version - 1 is the number of events folded after creation.
C24_VersionCountsFoldedEvents == []VersionCountsFolds /\ [][VersionStepsByOne]_vars

\* Three events are stored for the session, one of them out of order, and
\* the version is 2.
C24_Witness ==
    /\ "s1" \in DOMAIN sessions
    /\ Cardinality(EventsOf("s1")) = 3
    /\ Cardinality(FoldedEventsOf("s1")) = 2
    /\ sessions["s1"].version = 2
    /\ last.op = "processEvent"
    /\ last.result.outOfOrder

\* No step moves a start time later or an end time earlier, or unsets one.
MarkersMoveOutwards ==
    \A s \in DOMAIN sessions :
        /\ s \in DOMAIN sessions'
        /\ sessions'[s].startTime <= sessions[s].startTime
        /\ IsSome(sessions[s].endTime)
           => /\ IsSome(sessions'[s].endTime)
              /\ Get(sessions'[s].endTime) >= Get(sessions[s].endTime)

\* The last step stored and folded an event of the given type.
AcceptedEvent(type) ==
    /\ last.op = "processEvent"
    /\ last.ok
    /\ last.result.status = "success"
    /\ ~last.result.outOfOrder
    /\ last.payload.eventType = type

\* An accepted end event leaves the session completed, ended at or after it.
EndIsRecorded ==
    AcceptedEvent("end") =>
        LET stored == sessions[last.payload.sessionId] IN
        /\ stored.status = "completed"
        /\ IsSome(stored.endTime)
        /\ Get(stored.endTime) >= last.payload.timestamp
        /\ last.result.sessionStatus = "completed"

\* C27: startTime never increases and endTime, once set, never decreases;
\* every accepted end event leaves status completed and endTime >= its timestamp.
C27_MarkersMoveOutwards == []EndIsRecorded /\ [][MarkersMoveOutwards]_vars

\* A second end event, later than the first, was accepted and moved endTime.
C27_Witness ==
    /\ AcceptedEvent("end")
    /\ IsSome(last.sessionRead)
    /\ IsSome(Get(last.sessionRead).endTime)
    /\ Get(sessions["s1"].endTime) > Get(Get(last.sessionRead).endTime)
    /\ Get(sessions["s1"].endTime) = last.payload.timestamp

----------------------------------------------------------------------------
(* Claims about the reason of a reconciliation *)

\* Every session that has a reconciliation reason keeps it in the next state.
ReasonIsKept ==
    \A s \in DOMAIN sessions :
        IsSome(sessions[s].reconciliationReason)
        => /\ s \in DOMAIN sessions'
           /\ sessions'[s].reconciliationReason = sessions[s].reconciliationReason

\* C25: reconciliationReason is first-writer-wins: once it has a value no
\* later merge changes it to a different one.
C25_ReasonIsFirstWriterWins == [][ReasonIsKept]_vars

\* The last step stored and folded an event that carried the clock-drift
\* indicator.
AcceptedDriftedEvent ==
    /\ last.op = "processEvent"
    /\ last.ok
    /\ last.result.status = "success"
    /\ ~last.result.outOfOrder
    /\ last.payload.requiresReconciliation

\* The session the last transaction worked on required reconciliation already.
AlreadyFlagged ==
    /\ IsSome(last.sessionRead)
    /\ Get(last.sessionRead).requiresReconciliation = Some(TRUE)

----------------------------------------------------------------------------
(* Claims about racing starts *)

\* The last transaction ran a new start event and found the session that
\* another start had created.
StartFoundSession ==
    /\ RanNewStart
    /\ IsSome(last.sessionRead)

\* A session, once created, is there in every later state, created by the
\* same event.
SessionIsCreatedOnce ==
    \A s \in DOMAIN sessions :
        /\ s \in DOMAIN sessions'
        /\ sessions'[s].sessionId = sessions[s].sessionId
        /\ sessions'[s].startTime = sessions[s].startTime

\* The second start aborted: no Event document of it, the session untouched.
LoserAborted ==
    StartFoundSession =>
        /\ ~last.ok
        /\ last.payload.eventId \notin DOMAIN events
        /\ sessions[last.payload.sessionId] = Get(last.sessionRead)

\* The second start was merged into the session of the first: its Event
\* document is stored, and the session is the merged one, not a new one.
LoserMerged ==
    StartFoundSession =>
        LET merged == MergedSession(Get(last.sessionRead), last.payload, now)
            stored == sessions[last.payload.sessionId] IN
        /\ last.ok
        /\ last.result.status = "success"
        /\ last.payload.eventId \in DOMAIN events
        /\ events[last.payload.eventId].sessionId = last.payload.sessionId
        /\ stored \in {merged, MarkClockDrift(merged, last.payload)}
        /\ stored # createNewSession(last.payload, now)
        /\ Cardinality(EventsOf(last.payload.sessionId)) >= 2

\* C28 as stated: of two racing starts one creates the session and the
\* other aborts without writing its Event document.
C28_Original == []LoserAborted /\ [][SessionIsCreatedOnce]_vars

\* C28 amended: of two racing starts one creates the session; the
\* transaction of the other runs after it, reads the session and merges its
\* event into it; no attempt aborts.
C28_RacingStartsBothCommit == []LoserMerged /\ [][SessionIsCreatedOnce]_vars

\* Both starts were claimed before either transaction ran; the second
\* transaction found the session and stored its event.
C28_Witness ==
    /\ StartFoundSession
    /\ last.ok
    /\ invoked = [k \in Keys |-> 1]
    /\ idem["k1"].status = "processing" /\ idem["k2"].status = "processing"
    /\ idem["k1"].createdAt = idem["k2"].createdAt
    /\ DOMAIN events = {1, 3}
    /\ \A c \in Requests : calls[c].pc = "processed"

----------------------------------------------------------------------------
(* Claims about what follows from the order check *)

\* Every session started no later than its latest event.
StartsBeforeLatestEvent ==
    \A s \in DOMAIN sessions : sessions[s].startTime <= sessions[s].lastEventTime

\* No step changes the start time of a session.
StartTimeIsFixed ==
    \A s \in DOMAIN sessions :
        /\ s \in DOMAIN sessions'
        /\ sessions'[s].startTime = sessions[s].startTime

\* A start event earlier than the start time is out of order and not folded.
EarlyStartIsOutOfOrder ==
    (/\ last.op = "processEvent"
     /\ ~IsSome(last.eventRead)
     /\ IsSome(last.sessionRead)
     /\ last.payload.eventType = "start"
     /\ last.payload.timestamp < Get(last.sessionRead).startTime)
    => /\ last.payload.timestamp < Get(last.sessionRead).lastEventTime
       /\ last.result.outOfOrder
       /\ events[last.payload.eventId].outOfOrder
       /\ sessions[last.payload.sessionId].metrics = Get(last.sessionRead).metrics

\* C29: startTime <= lastEventTime in every state, so a start event earlier
\* than startTime is out of order and not aggregated, and startTime never
\* changes after creation.
C29_StartTimeIsFixed ==
    /\ []StartsBeforeLatestEvent
    /\ []EarlyStartIsOutOfOrder
    /\ [][StartTimeIsFixed]_vars

\* A start event earlier than the session's start time was stored.
C29_Witness ==
    /\ last.op = "processEvent"
    /\ IsSome(last.sessionRead)
    /\ last.payload.eventType = "start"
    /\ last.payload.timestamp < Get(last.sessionRead).startTime
    /\ last.ok
    /\ last.payload.eventId \in DOMAIN events
    /\ sessions["s1"].startTime = 2000

\* A session is completed exactly when its end time is set; otherwise it is active.
CompletedIffEnded ==
    \A s \in DOMAIN sessions :
        /\ sessions[s].status \in {"active", "completed"}
        /\ sessions[s].status = "completed" <=> IsSome(sessions[s].endTime)

\* A completed session is completed in the next state.
CompletedStays ==
    \A s \in DOMAIN sessions :
        sessions[s].status = "completed"
        => /\ s \in DOMAIN sessions'
           /\ sessions'[s].status = "completed"

\* An update accepted after the end is folded like any other.
UpdateAfterEndIsFolded ==
    (/\ AcceptedEvent("update")
     /\ IsSome(last.sessionRead)
     /\ Get(last.sessionRead).status = "completed")
    => LET before == Get(last.sessionRead)
           stored == sessions[last.payload.sessionId] IN
       /\ stored.status = "completed"
       /\ stored.endTime = before.endTime
       /\ stored.version = before.version + 1
       /\ stored.metrics.caloriesBurned
            = before.metrics.caloriesBurned + Get(Metric(last.payload, "calories"))
       /\ stored.metrics.heartRateDataPoints
            = before.metrics.heartRateDataPoints + ReadingWeight(last.payload)

\* C30: a session is completed if and only if its endTime is set; a
\* completed session never returns to active, later accepted updates still
\* change its metrics, and no merge sets status abandoned.
C30_CompletedIffEnded ==
    /\ []CompletedIffEnded
    /\ []UpdateAfterEndIsFolded
    /\ [][CompletedStays]_vars

\* An update was accepted by a completed session and raised its calories.
C30_Witness ==
    /\ AcceptedEvent("update")
    /\ IsSome(last.sessionRead)
    /\ Get(last.sessionRead).status = "completed"
    /\ sessions["s1"].status = "completed"
    /\ sessions["s1"].metrics.caloriesBurned
         > Get(last.sessionRead).metrics.caloriesBurned

----------------------------------------------------------------------------
(* Claims about what identifies a request and an event *)

\* The last step was a claim that read a completed, unexpired record of its
\* key whose request is not the call's payload.
FoundOtherPayloadCompleted ==
    /\ last.op = "claim"
    /\ IsSome(last.read)
    /\ Get(last.read).status = "completed"
    /\ now < Get(last.read).expiresAt
    /\ Get(last.read).request # last.request

\* Such a call is answered with the recorded response, and the record keeps
\* the request it was created with.
OtherPayloadIsReplayed ==
    FoundOtherPayloadCompleted
    => /\ last.decision = "cached"
       /\ last.ret = Some(Returned(FALSE, Get(last.read).response))
       /\ HttpResponse(Get(last.ret)) = [status |-> 200, body |-> Get(last.read).response]
       /\ idem[last.key] = Get(last.read)
       /\ idem[last.key].request # last.request
       /\ calls[last.call] = DoneCall

\* The step of such a call runs no processor and writes no document.
OtherPayloadIsNotProcessed ==
    (/\ calls' # calls
     /\ last'.op = "claim"
     /\ IsSome(last'.read)
     /\ Get(last'.read).status = "completed"
     /\ now' < Get(last'.read).expiresAt
     /\ Get(last'.read).request # last'.request)
    => /\ invoked' = invoked
       /\ idem' = idem
       /\ sessions' = sessions
       /\ events' = events

\* C31: the guard matches on the key alone: a call whose key has a completed,
\* unexpired record gets that record's response even when its payload is not
\* the recorded one, and that payload is neither processed nor stored.
C31_KeyAloneIdentifiesRequest ==
    /\ []OtherPayloadIsReplayed
    /\ [][OtherPayloadIsNotProcessed]_vars

\* The start of s1 completed under k1; the update of s1, sent under k1 too,
\* was answered with the start's response and session s1 is as the start
\* left it.
C31_Witness ==
    /\ FoundOtherPayloadCompleted
    /\ last.key = "k1"
    /\ last.request.eventId = 2
    /\ Get(last.read).request.eventId = 1
    /\ Get(last.ret).response.status = "success"
    /\ DOMAIN events = {1}
    /\ sessions["s1"].version = 1

\* The last step was a processEvent transaction that found the Event
\* document of its event id, stored for another session than the request's.
FoundEventOfOtherSession ==
    /\ FoundEvent
    /\ Get(last.eventRead).sessionId # last.payload.sessionId

\* C32: deduplication by event id is global: a request whose eventId already
\* has an Event document is answered 'already_processed' even when its
\* sessionId is not the stored event's, and then the session it names is
\* neither created nor modified (nor is the stored event).
C32_EventIdIsGlobal ==
    FoundEventOfOtherSession
    => /\ last.ok
       /\ last.result = AlreadyProcessed(last.payload)
       /\ last.result.status = "already_processed"
       /\ Read(sessions, last.payload.sessionId) = last.sessionRead
       /\ Read(events, last.payload.eventId) = last.eventRead
       /\ events[last.payload.eventId].sessionId # last.payload.sessionId

\* Both sessions exist; an update of s2 came under the id of an event of
\* s1, and s2 is at version 1 as its start left it.
C32_Witness ==
    /\ FoundEventOfOtherSession
    /\ last.payload.sessionId = "s2"
    /\ last.payload.eventType = "update"
    /\ Get(last.eventRead).sessionId = "s1"
    /\ DOMAIN sessions = {"s1", "s2"}
    /\ sessions["s2"].version = 1
    /\ \A e \in DOMAIN evWrites : evWrites[e] = 1

\* The session the request names does not exist, and is not created.
C32_WitnessNotCreated ==
    /\ FoundEventOfOtherSession
    /\ last.payload.sessionId = "s2"
    /\ last.payload.eventType = "start"
    /\ DOMAIN sessions = {"s1"}

----------------------------------------------------------------------------
(* Claims about the transaction as a unit *)

\* Every stored event names a stored session.
EventsHaveSessions ==
    \A e \in DOMAIN events : events[e].sessionId \in DOMAIN sessions

\* A step that stores or changes an Event document is a processEvent
\* transaction that committed, and the same step leaves the session of the
\* event in the store, created from the event or merged with it.
EventIsWrittenWithItsSession ==
    \A e \in DOMAIN events' :
        (e \notin DOMAIN events \/ events'[e] # events[e])
        => /\ last'.op = "processEvent"
           /\ last'.ok
           /\ last'.payload.eventId = e
           /\ events'[e].sessionId = last'.payload.sessionId
           /\ events'[e].sessionId \in DOMAIN sessions'
           /\ \E keepsReference \in BOOLEAN :
                 sessions' = processEvent(last'.payload, now, keepsReference).sessions
           /\ IF IsSome(last'.sessionRead)
              THEN sessions'[events'[e].sessionId].lastEventTime
                     >= events'[e].timestamp
              ELSE sessions'[events'[e].sessionId].startTime = events'[e].timestamp

\* The last step was a processEvent transaction that threw.
TransactionAborted ==
    /\ last.op = "processEvent"
    /\ ~last.ok

\* A transaction that threw left the documents it read as they were.
AbortLeavesNothing ==
    TransactionAborted
    => /\ Read(events, last.payload.eventId) = last.eventRead
       /\ Read(sessions, last.payload.sessionId) = last.sessionRead

\* A step whose transaction throws changes neither collection.
AbortChangesNothing ==
    (last'.op = "processEvent" /\ ~last'.ok /\ last' # last)
    => (events' = events /\ sessions' = sessions)

\* C33: for every stored Event document a Session document with the event's
\* sessionId exists: an event is written only in the transaction that
\* creates or updates its session, and a transaction that aborts leaves
\* neither behind.
C33_EventsHaveSessions ==
    /\ []EventsHaveSessions
    /\ []AbortLeavesNothing
    /\ [][EventIsWrittenWithItsSession]_vars
    /\ [][AbortChangesNothing]_vars

\* Session s1 holds an event; an update for s2, which no start created,
\* came under a new event id and its transaction threw.
C33_Witness ==
    /\ TransactionAborted
    /\ last.payload.sessionId = "s2"
    /\ last.payload.eventId \notin DOMAIN events
    /\ DOMAIN sessions = {"s1"}
    /\ DOMAIN events # {}

----------------------------------------------------------------------------
(* Claims about the derived duration *)

\* The duration of a session is 0 when it is created and (endTime or, if
\* unset, now) - startTime after an accepted merge; an event out of order
\* leaves it as it was.
DurationIsDerived ==
    (last.op = "processEvent" /\ last.ok /\ last.result.status = "success")
    => LET stored == sessions[last.payload.sessionId] IN
       stored.metrics.totalDuration =
          IF ~IsSome(last.sessionRead) THEN Rat(0, 1)
          ELSE IF last.result.outOfOrder
               THEN Get(last.sessionRead).metrics.totalDuration
          ELSE TotalDuration(stored, now)

\* C34: in every reachable state the totalDuration of every session is not
\* negative, for every start timestamp validatePayload admits and every
\* clock value at the time of the merge.
C34_DurationIsNonNegative ==
    \A s \in DOMAIN sessions : sessions[s].metrics.totalDuration.num >= 0

\* The start of the session is dated ahead of the clock and an event was
\* merged into the session.
MergedBeforeItsStart ==
    /\ last.op = "processEvent"
    /\ last.ok
    /\ IsSome(last.sessionRead)
    /\ ~last.result.outOfOrder
    /\ sessions["s1"].startTime > now

\* A merge gives a duration that is not negative when the session has ended
\* or the clock has reached its start.
MergeOnceStartedIsNonNegative ==
    (/\ last.op = "processEvent"
     /\ last.ok
     /\ IsSome(last.sessionRead)
     /\ ~last.result.outOfOrder
     /\ \/ IsSome(sessions[last.payload.sessionId].endTime)
        \/ sessions[last.payload.sessionId].startTime <= now)
    => sessions[last.payload.sessionId].metrics.totalDuration.num >= 0

====
